---------------------------- MODULE Spec2Model ----------------------------
(***************************************************************************)
(* A model of the view rendering and interaction engine of the map         *)
(* projections viewer: the double-buffered render target (DrawBuffer),     *)
(* the camera/orientation state of a view (ViewBase) and the operations    *)
(* on them.                                                                *)
(*                                                                         *)
(* GPU textures are objects of a heap (gl) named by small integers; a      *)
(* Rust value that owns or shares a texture holds its name, and a texture  *)
(* no value refers to any more is deleted (Drop).  The content of a        *)
(* texture is the list of the GPU commands that produced it, empty for a   *)
(* texture that was allocated and never drawn to.                          *)
(***************************************************************************)
EXTENDS Integers, Sequences, FiniteSets, TLC

VARIABLES
    gl,          \* the GPU's textures: name -> [width, height, samples, format, content]
    renderer,    \* imgui_glium_renderer::Renderer: its texture table and next free id
    dbufs,       \* the DrawBuffer a client of draw_buffer.rs holds (<<>> before it makes one)
    id_counter,  \* ProgramData::id_counter
    views,       \* ProgramData's view lists: projection kind -> sequence of ViewBase
    last         \* the last call made and what it returned

vars == <<gl, renderer, dbufs, id_counter, views, last>>

----------------------------------------------------------------------------
(* Bounds of the model. *)

MaxDim == 2
MaxFrames == 1
\* The largest |angle_ew| (radians) and the longest product of rotations.
MaxEw == 1
MaxRot == 2
\* The largest zoom of the camera client; the largest numerator and
\* denominator of a zoom of the zoom client.
MaxCameraZoom == 2
MaxZoomNum == 6
MaxZoomDen == 5
\* The most views open at a time and the most views ever created.
MaxViews == 2
MaxIds == 3
\* The most properties in which the open views of the GUI, taken
\* together, differ from new views.
MaxChanged == 1
\* The most views closed before a view is created, in the GUI.
MaxClosed == 0
\* The grid steps (whole degrees) passed to create_globe_mesh.
MinStep == 20
MaxStep == 360
\* The most shapes of a shape file, parts of a polyline and points of a part.
MaxShapes == 2
MaxParts == 2
MaxPoints == 2
\* The most substeps per step passed to create_graticule.
MaxSubsteps == 2

(* Program constants. *)

INITIAL_DRAW_BUF_SIZE == 256
NUM_SAMPLES == 8

COLOR_FORMAT == "U8U8U8U8"
DEPTH_FORMAT == "I24"
STORAGE_FORMAT == "U8U8U8"

Samplings == {"Single", "Multi"}

\* The u32 sizes a caller passes.
Dims == 0..MaxDim

\* What a client of a DrawBuffer renders into it.
Frames == 1..MaxFrames

----------------------------------------------------------------------------
(* The GPU's texture objects. *)

\* The name a newly generated texture gets: one no live texture has.
FreshName(heap) ==
    CHOOSE n \in 1..(Cardinality(DOMAIN heap) + 1) :
        /\ n \notin DOMAIN heap
        /\ \A m \in 1..(n - 1) : m \in DOMAIN heap

\* Texture2d::empty_with_format and its depth and multisample variants: a
\* texture of the given size whose content is not defined yet.
EmptyTexture(format, width, height, samples) ==
    [format |-> format, width |-> width, height |-> height,
     samples |-> samples, content |-> <<>>]

Alloc(heap, tex) ==
    LET n == FreshName(heap)
    IN  [name |-> n, heap |-> [m \in DOMAIN heap \cup {n} |-> IF m = n THEN tex ELSE heap[m]]]

\* The textures a DrawBuffer refers to.
BufferRefs(db) == {db.draw_bufs.draw, db.draw_bufs.depth, db.storage_buf}

\* Drop: a texture lives as long as a value refers to it.
Collect(heap, roots) == [n \in DOMAIN heap \cap roots |-> heap[n]]

----------------------------------------------------------------------------
(* imgui's texture table (imgui::Textures), keyed by TextureId. *)

TexturesInsert(r, tex) ==
    [id |-> r.next,
     renderer |-> [textures |-> [i \in DOMAIN r.textures \cup {r.next} |->
                                    IF i = r.next THEN tex ELSE r.textures[i]],
                   next |-> r.next + 1]]

TexturesReplace(r, id, tex) ==
    [r EXCEPT !.textures = [i \in DOMAIN r.textures \cup {id} |->
                                IF i = id THEN tex ELSE r.textures[i]]]

----------------------------------------------------------------------------
(* draw_buffer.rs *)

\* Buffers::sampling
sampling(draw_bufs) == draw_bufs.sampling

\* DrawBuffer::width, DrawBuffer::height
width(heap, self) == heap[self.storage_buf].width

height(heap, self) == heap[self.storage_buf].height

\* DrawBuffer::create, first part: the draw and depth textures of the
\* requested sampling.
create_draw_bufs(sampl, w, h, heap) ==
    LET samples == IF sampl = "Single" THEN 1 ELSE NUM_SAMPLES
        a1 == Alloc(heap, EmptyTexture(COLOR_FORMAT, w, h, samples))
        a2 == Alloc(a1.heap, EmptyTexture(DEPTH_FORMAT, w, h, samples))
    IN  [draw_bufs |-> [sampling |-> sampl, draw |-> a1.name, depth |-> a2.name],
         heap |-> a2.heap]

create_storage_buf_swapped(w, h, heap) ==
    Alloc(heap, EmptyTexture(STORAGE_FORMAT, h, w, 1))

\* DrawBuffer::create, second part: the single-sampled storage texture.
create_storage_buf(w, h, heap) ==
    Alloc(heap, EmptyTexture(STORAGE_FORMAT, w, h, 1))

register_texture_inserting(prev_id, storage_buf, r) ==
    TexturesInsert(r, storage_buf)

\* DrawBuffer::create, third part: the storage texture is entered in the
\* renderer's table, under a new id or under prev_id.  prev_id is <<>>
\* (None) or <<id>> (Some(id)).
register_texture(prev_id, storage_buf, r) ==
    IF prev_id = <<>>
    THEN TexturesInsert(r, storage_buf)
    ELSE [id |-> prev_id[1], renderer |-> TexturesReplace(r, prev_id[1], storage_buf)]

\* DrawBuffer::create
create(sampl, prev_id, w, h, heap, r) ==
    LET d == create_draw_bufs(sampl, w, h, heap)
        st == create_storage_buf(w, h, d.heap)
        reg == register_texture(prev_id, st.name, r)
    IN  [id |-> reg.id, draw_bufs |-> d.draw_bufs, storage_buf |-> st.name,
         heap |-> st.heap, renderer |-> reg.renderer]

\* DrawBuffer::new_with_size
DrawBuffer_new_with_size(sampl, heap, r, w, h) ==
    LET c == create(sampl, <<>>, w, h, heap, r)
    IN  [self |-> [id |-> c.id, draw_bufs |-> c.draw_bufs, storage_buf |-> c.storage_buf],
         heap |-> c.heap, renderer |-> c.renderer]

\* DrawBuffer::new
DrawBuffer_new(sampl, heap, r) ==
    LET c == create(sampl, <<>>, INITIAL_DRAW_BUF_SIZE, INITIAL_DRAW_BUF_SIZE, heap, r)
    IN  [self |-> [id |-> c.id, draw_bufs |-> c.draw_bufs, storage_buf |-> c.storage_buf],
         heap |-> c.heap, renderer |-> c.renderer]

\* DrawBuffer::set_sampling
set_sampling(self, sampl, heap, r) ==
    LET c == create(sampl, <<self.id>>, width(heap, self), height(heap, self), heap, r)
    IN  [self |-> [id |-> c.id, draw_bufs |-> c.draw_bufs, storage_buf |-> c.storage_buf],
         heap |-> c.heap, renderer |-> c.renderer]

DrawBuffer_update_size_width_only(self, w, h, heap, r) ==
    IF w # heap[self.storage_buf].width
    THEN LET c == create(sampling(self.draw_bufs), <<self.id>>, w, h, heap, r)
         IN  [self |-> [id |-> c.id, draw_bufs |-> c.draw_bufs, storage_buf |-> c.storage_buf],
              heap |-> c.heap, renderer |-> c.renderer, ret |-> TRUE]
    ELSE [self |-> self, heap |-> heap, renderer |-> r, ret |-> FALSE]

\* DrawBuffer::update_size
DrawBuffer_update_size(self, w, h, heap, r) ==
    IF w # heap[self.storage_buf].width \/ h # heap[self.storage_buf].height
    THEN LET c == create(sampling(self.draw_bufs), <<self.id>>, w, h, heap, r)
         IN  [self |-> [id |-> c.id, draw_bufs |-> c.draw_bufs, storage_buf |-> c.storage_buf],
              heap |-> c.heap, renderer |-> c.renderer, ret |-> TRUE]
    ELSE [self |-> self, heap |-> heap, renderer |-> r, ret |-> FALSE]

\* DrawBuffer::update_storage_buf: a full-screen quad drawn into the storage
\* texture with the copy program of the draw buffers' sampling.
update_storage_buf(self, heap) ==
    LET prog == IF self.draw_bufs.sampling = "Single"
                THEN "texture_copy_single" ELSE "texture_copy_multi"
        cmd == [op |-> "copy", prog |-> prog, source |-> heap[self.draw_bufs.draw].content]
    IN  [heap EXCEPT ![self.storage_buf].content = <<cmd>>]

\* A client's rendering through DrawBuffer::frame_buf: the draw texture is
\* cleared and frame f drawn into it.
PaintFrame(self, f, heap) ==
    [heap EXCEPT ![self.draw_bufs.draw].content = <<[op |-> "clear"], [op |-> "draw", frame |-> f]>>]

----------------------------------------------------------------------------
(* Numbers.  A finite f32 or f64 value is kept as the exact fraction       *)
(* <<n, d>> in lowest terms with d > 0; the inputs of the model are        *)
(* fractions whose sums and products the floating-point operations give    *)
(* exactly.  The values of an f64 that are no fractions have d = 0.        *)

AbsInt(x) == IF x < 0 THEN -x ELSE x

RECURSIVE GCD(_, _)
GCD(a, b) == IF b = 0 THEN a ELSE GCD(b, a % b)

Rat(n, d) ==
    LET g == GCD(AbsInt(n), AbsInt(d))
        sgn == IF d < 0 THEN -1 ELSE 1
    IN  <<sgn * (n \div g), sgn * (d \div g)>>

RInt(n) == <<n, 1>>
RZero == <<0, 1>>
ROne == <<1, 1>>
RHalf == <<1, 2>>

RAdd(a, b) == Rat(a[1] * b[2] + b[1] * a[2], a[2] * b[2])
RMul(a, b) == Rat(a[1] * b[1], a[2] * b[2])
RInv(a) == Rat(a[2], a[1])
RAbs(a) == <<AbsInt(a[1]), a[2]>>
RLt(a, b) == a[1] * b[2] < b[1] * a[2]
RLe(a, b) == a[1] * b[2] <= b[1] * a[2]

\* f64::INFINITY, f64::NEG_INFINITY, f64::NAN, and f64::MAX, the largest
\* finite f64, with its negation.
Inf == <<1, 0>>
NegInf == <<-1, 0>>
NaN == <<0, 0>>
F64_MAX == <<2, 0>>
NEG_F64_MAX == <<-2, 0>>

IsFinite(a) == a[2] # 0

\* -1, 0 or 1; a NaN has no sign.
Sign(a) == IF a[1] < 0 THEN -1 ELSE IF a[1] > 0 THEN 1 ELSE 0

\* f64 `a < b`, for a finite b: false when a is NaN.
FLt(a, b) ==
    IF IsFinite(a) THEN RLt(a, b)
    ELSE a \in {NegInf, NEG_F64_MAX}

\* f64 `a <= b`, for a finite b.
FLe(a, b) ==
    IF IsFinite(a) THEN RLe(a, b)
    ELSE a \in {NegInf, NEG_F64_MAX}

\* The products of f64::MAX the model can name: with a factor of magnitude
\* one it stays, with a larger one it overflows, with zero it is zero.
MaxTimes(sgn, f) ==
    IF f = NaN THEN NaN
    ELSE IF f = RZero THEN RZero
    ELSE IF RAbs(f) = ROne THEN (IF sgn * Sign(f) > 0 THEN F64_MAX ELSE NEG_F64_MAX)
    ELSE IF sgn * Sign(f) > 0 THEN Inf ELSE NegInf

\* Whether the model can name the f64 product a * b.
Nameable(a, b) ==
    /\ a \in {F64_MAX, NEG_F64_MAX} /\ IsFinite(b) => b = RZero \/ RLe(ROne, RAbs(b))
    /\ b \in {F64_MAX, NEG_F64_MAX} /\ IsFinite(a) => a = RZero \/ RLe(ROne, RAbs(a))

\* f64 multiplication.
FMul(a, b) ==
    IF a = NaN \/ b = NaN THEN NaN
    ELSE IF IsFinite(a) /\ IsFinite(b) THEN RMul(a, b)
    ELSE IF a \in {Inf, NegInf}
         THEN (IF b = RZero THEN NaN
               ELSE IF Sign(a) * Sign(b) > 0 THEN Inf ELSE NegInf)
    ELSE IF b \in {Inf, NegInf}
         THEN (IF a = RZero THEN NaN
               ELSE IF Sign(a) * Sign(b) > 0 THEN Inf ELSE NegInf)
    ELSE IF a \in {F64_MAX, NEG_F64_MAX} THEN MaxTimes(Sign(a), b)
    ELSE MaxTimes(Sign(b), a)

\* f64 addition, for a b that is finite or NaN.
FAdd(a, b) ==
    IF a = NaN \/ b = NaN THEN NaN
    ELSE IF IsFinite(a) THEN RAdd(a, b)
    ELSE a

\* f64 `1.0 / a`, for an a that is a fraction, an infinity or NaN.
FRecip(a) ==
    IF a = NaN THEN NaN
    ELSE IF a \in {Inf, NegInf} THEN RZero
    ELSE IF a = RZero THEN Inf
    ELSE RInv(a)

\* Rad::from(Deg(90.0)): pi/2, as the fraction 355/226 (no fraction the
\* model reaches lies between the two).
HALF_PI_NUM == 355
HALF_PI_DEN == 226
HalfPi == <<HALF_PI_NUM, HALF_PI_DEN>>

----------------------------------------------------------------------------
(* cgmath.  A Basis3 is kept as the ordered list of the axis-angle         *)
(* rotations whose product it is (the identity is the empty product), or   *)
(* as NaN when its matrix holds NaN entries.  Products are not simplified: *)
(* two values with the same list are the same matrix.  An angle is         *)
(* coef * sqrt(radicand) radians.                                          *)

One == [nan |-> FALSE, rot |-> <<>>]

NaNBasis == [nan |-> TRUE, rot |-> <<>>]

\* PartialEq of Basis3<f64>: a matrix with NaN entries equals nothing.
BasisEq(a, b) == ~a.nan /\ ~b.nan /\ a.rot = b.rot

AxisY == <<0, 1, 0>>
AxisZ == <<0, 0, 1>>

\* Basis3::from_angle_y(Rad(a)), Basis3::from_angle_z(Rad(a))
from_angle_y(a) ==
    IF ~IsFinite(a) THEN NaNBasis
    ELSE IF a = RZero THEN One
    ELSE [nan |-> FALSE, rot |-> <<[axis |-> AxisY, coef |-> a, radicand |-> 1]>>]

from_angle_z(a) ==
    IF ~IsFinite(a) THEN NaNBasis
    ELSE IF a = RZero THEN One
    ELSE [nan |-> FALSE, rot |-> <<[axis |-> AxisZ, coef |-> a, radicand |-> 1]>>]

\* Basis3 * Basis3
Mul(a, b) == IF a.nan \/ b.nan THEN NaNBasis ELSE [nan |-> FALSE, rot |-> a.rot \o b.rot]

\* Vector3::cross
cross(a, b) ==
    <<a[2] * b[3] - a[3] * b[2], a[3] * b[1] - a[1] * b[3], a[1] * b[2] - a[2] * b[1]>>

\* InnerSpace::normalize: the vector divided by its magnitude; the zero
\* vector gives NaN components.  A unit vector is kept as the shortest
\* integer vector of its direction.
normalize(v) ==
    IF v = <<0, 0, 0>>
    THEN [nan |-> TRUE, dir |-> v]
    ELSE LET g == GCD(GCD(AbsInt(v[1]), AbsInt(v[2])), AbsInt(v[3]))
         IN  [nan |-> FALSE, dir |-> <<v[1] \div g, v[2] \div g, v[3] \div g>>]

\* The largest s with s * s <= n.
Isqrt(n) == CHOOSE s \in 0..n : s * s <= n /\ (s + 1) * (s + 1) > n

\* coef * sqrt(d2), for the f32 sqrt of a sum of squares.
SqrtTimes(coef, d2) ==
    LET s == Isqrt(d2)
    IN  IF s * s = d2 THEN [coef |-> FMul(coef, RInt(s)), radicand |-> 1]
        ELSE [coef |-> coef, radicand |-> d2]

\* Basis3::from_axis_angle
from_axis_angle(axis, angle) ==
    IF axis.nan \/ ~IsFinite(angle.coef) THEN NaNBasis
    ELSE IF angle.coef = RZero THEN One
    ELSE [nan |-> FALSE,
          rot |-> <<[axis |-> axis.dir, coef |-> angle.coef, radicand |-> angle.radicand]>>]

----------------------------------------------------------------------------
(* views/base.rs *)

DragRotations == {"NSEW", "Free"}
ViewModes == {"VectorMap", "GlobeTexture"}

\* The projection kinds whose view types are in views/.
Kinds == {"cylindrical_lambert", "orthographic", "stereographic"}

\* ProgramData::new_unique_id
new_unique_id_reissuing(counter) == [id |-> counter, counter |-> counter]

new_unique_id(counter) == [id |-> counter, counter |-> counter + 1]

\* OrthographicView::initial_orientation and the like
initial_orientation(kind) == One

render_graticule_always(self, heap) ==
    LET uniforms == [globe_orientation |-> self.orientation, zoom |-> self.zoom,
                     wh_ratio |-> self.wh_ratio]
        base == IF self.view_mode = "GlobeTexture"
                THEN <<[op |-> "clear", color |-> "0.5"],
                       [op |-> "draw", buf |-> "globe_gl_buf", prog |-> self.tris_gl_prog,
                        uniforms |-> uniforms, color |-> "none"]>>
                ELSE <<[op |-> "clear", color |-> "0.87"],
                       [op |-> "draw", buf |-> "map_gl_buf", prog |-> self.lines_gl_prog,
                        uniforms |-> uniforms, color |-> "0"]>>
        over == <<[op |-> "draw", buf |-> "graticule_gl_buf", prog |-> self.lines_gl_prog,
                   uniforms |-> uniforms, color |-> "0.6"]>>
        drawn == [heap EXCEPT ![self.draw_buf.draw_bufs.draw].content = base \o over]
    IN  update_storage_buf(self.draw_buf, drawn)

\* ViewBase::render: the draw texture is cleared, the globe or the vector
\* map drawn, the graticule drawn over it when wanted, and the result
\* copied into the storage texture.
render(self, heap) ==
    LET uniforms == [globe_orientation |-> self.orientation, zoom |-> self.zoom,
                     wh_ratio |-> self.wh_ratio]
        base == IF self.view_mode = "GlobeTexture"
                THEN <<[op |-> "clear", color |-> "0.5"],
                       [op |-> "draw", buf |-> "globe_gl_buf", prog |-> self.tris_gl_prog,
                        uniforms |-> uniforms, color |-> "none"]>>
                ELSE <<[op |-> "clear", color |-> "0.87"],
                       [op |-> "draw", buf |-> "map_gl_buf", prog |-> self.lines_gl_prog,
                        uniforms |-> uniforms, color |-> "0"]>>
        over == IF self.draw_graticule
                THEN <<[op |-> "draw", buf |-> "graticule_gl_buf", prog |-> self.lines_gl_prog,
                        uniforms |-> uniforms, color |-> "0.6"]>>
                ELSE <<>>
        drawn == [heap EXCEPT ![self.draw_buf.draw_bufs.draw].content = base \o over]
    IN  update_storage_buf(self.draw_buf, drawn)

\* ViewBase::new
ViewBase_new(orientation, counter, lines_gl_prog, tris_gl_prog, heap, r) ==
    LET uid == new_unique_id(counter)
        db == DrawBuffer_new("Multi", heap, r)
    IN  [self |-> [unique_id |-> uid.id,
                   orientation |-> orientation,
                   draw_graticule |-> TRUE,
                   wh_ratio |-> ROne,
                   view_mode |-> "GlobeTexture",
                   angle_ns |-> RZero,
                   angle_ew |-> RZero,
                   drag_rotation |-> IF ~BasisEq(orientation, One) THEN "Free" ELSE "NSEW",
                   zoom |-> ROne,
                   draw_buf |-> db.self,
                   lines_gl_prog |-> lines_gl_prog,
                   tris_gl_prog |-> tris_gl_prog],
         counter |-> uid.counter, heap |-> db.heap, renderer |-> db.renderer]

\* OrthographicView::new and the like: the view of a projection kind, with
\* the kind's pair of GL programs.
View_new(kind, counter, heap, r) ==
    ViewBase_new(initial_orientation(kind), counter,
                 <<kind, "lines">>, <<kind, "triangles">>, heap, r)

zoom_by_not_rendering(self, relative_zoom, heap) ==
    LET m == FMul(self.zoom, relative_zoom)
        z == [self EXCEPT !.zoom = IF FLt(m, RHalf) THEN RHalf ELSE m]
    IN  [self |-> z, heap |-> heap, rendered |-> FALSE]

\* ViewBase::zoom_by
zoom_by(self, relative_zoom, heap) ==
    LET m == FMul(self.zoom, relative_zoom)
        z == [self EXCEPT !.zoom = IF FLt(m, RHalf) THEN RHalf ELSE m]
    IN  [self |-> z, heap |-> render(z, heap), rendered |-> TRUE]

set_orientation_always_free(self, orientation, heap) ==
    LET v == [self EXCEPT !.drag_rotation = "Free",
                          !.orientation = orientation,
                          !.angle_ew = RZero,
                          !.angle_ns = RZero]
    IN  [self |-> v, heap |-> render(v, heap), rendered |-> TRUE]

set_orientation_keeping_angles(self, orientation, heap) ==
    LET v == [self EXCEPT !.drag_rotation = IF ~BasisEq(orientation, One) THEN "Free" ELSE @,
                          !.orientation = orientation]
    IN  [self |-> v, heap |-> render(v, heap), rendered |-> TRUE]

\* ViewBase::set_orientation
set_orientation(self, orientation, heap) ==
    LET v == [self EXCEPT !.drag_rotation = IF ~BasisEq(orientation, One) THEN "Free" ELSE @,
                          !.orientation = orientation,
                          !.angle_ew = RZero,
                          !.angle_ns = RZero]
    IN  [self |-> v, heap |-> render(v, heap), rendered |-> TRUE]

set_drag_rotation_keeping_orientation(self, drag_rotation, heap) ==
    IF drag_rotation = "NSEW"
    THEN LET v == [self EXCEPT !.drag_rotation = drag_rotation,
                               !.angle_ew = RZero,
                               !.angle_ns = RZero]
         IN  [self |-> v, heap |-> render(v, heap), rendered |-> TRUE]
    ELSE [self |-> [self EXCEPT !.drag_rotation = drag_rotation], heap |-> heap,
          rendered |-> FALSE]

\* ViewBase::set_drag_rotation
set_drag_rotation(self, drag_rotation, heap) ==
    IF drag_rotation = "NSEW"
    THEN LET v == [self EXCEPT !.drag_rotation = drag_rotation,
                               !.orientation = One,
                               !.angle_ew = RZero,
                               !.angle_ns = RZero]
         IN  [self |-> v, heap |-> render(v, heap), rendered |-> TRUE]
    ELSE [self |-> [self EXCEPT !.drag_rotation = drag_rotation], heap |-> heap,
          rendered |-> FALSE]

rotate_free_accumulating(self, start, end) ==
    LET start_vec == <<1, start[1], start[2]>>
        end_vec == <<1, end[1], end[2]>>
        axis_of_rotation == normalize(cross(start_vec, end_vec))
        d2 == (start[1] - end[1]) * (start[1] - end[1]) + (start[2] - end[2]) * (start[2] - end[2])
        angle == SqrtTimes(FRecip(self.zoom), d2)
        rotation == from_axis_angle(axis_of_rotation, angle)
    IN  [self EXCEPT !.orientation = Mul(rotation, self.orientation),
                     !.angle_ew = FAdd(self.angle_ew,
                                       FMul(FRecip(self.zoom), RInt(end[1] - start[1])))]

\* ViewBase::rotate_by_dragging, DragRotation::Free
rotate_free(self, start, end) ==
    LET start_vec == <<1, start[1], start[2]>>
        end_vec == <<1, end[1], end[2]>>
        axis_of_rotation == normalize(cross(start_vec, end_vec))
        d2 == (start[1] - end[1]) * (start[1] - end[1]) + (start[2] - end[2]) * (start[2] - end[2])
        angle == SqrtTimes(FRecip(self.zoom), d2)
        rotation == from_axis_angle(axis_of_rotation, angle)
    IN  [self EXCEPT !.orientation = Mul(rotation, self.orientation)]

rotate_nsew_unchecked(self, start, end) ==
    LET new_angle_ns == FAdd(self.angle_ns, FMul(FRecip(self.zoom), RInt(start[2] - end[2])))
        ew == FAdd(self.angle_ew, FMul(FRecip(self.zoom), RInt(end[1] - start[1])))
        rotation_ns == from_angle_y(new_angle_ns)
        rotation_ew == from_angle_z(ew)
    IN  [self EXCEPT !.angle_ns = new_angle_ns,
                     !.angle_ew = ew,
                     !.orientation = Mul(rotation_ns, rotation_ew)]

rotate_nsew_by_end(self, start, end) ==
    LET new_angle_ns == FAdd(self.angle_ns, FMul(FRecip(self.zoom), RInt(start[2] - end[2])))
        ns == IF FLe(RAbs(new_angle_ns), HalfPi) THEN new_angle_ns ELSE self.angle_ns
        ew == FAdd(self.angle_ew, FMul(FRecip(self.zoom), RInt(end[1])))
        rotation_ns == from_angle_y(ns)
        rotation_ew == from_angle_z(ew)
    IN  [self EXCEPT !.angle_ns = ns,
                     !.angle_ew = ew,
                     !.orientation = Mul(rotation_ns, rotation_ew)]

\* ViewBase::rotate_by_dragging, DragRotation::NSEW
rotate_nsew(self, start, end) ==
    LET new_angle_ns == FAdd(self.angle_ns, FMul(FRecip(self.zoom), RInt(start[2] - end[2])))
        ns == IF FLe(RAbs(new_angle_ns), HalfPi) THEN new_angle_ns ELSE self.angle_ns
        ew == FAdd(self.angle_ew, FMul(FRecip(self.zoom), RInt(end[1] - start[1])))
        rotation_ns == from_angle_y(ns)
        rotation_ew == from_angle_z(ew)
    IN  [self EXCEPT !.angle_ns = ns,
                     !.angle_ew = ew,
                     !.orientation = Mul(rotation_ns, rotation_ew)]

\* ViewBase::refresh
refresh(self, heap) == render(self, heap)

\* ViewBase::set_view_mode
set_view_mode(self, view_mode, heap) ==
    LET v == [self EXCEPT !.view_mode = view_mode]
    IN  [self |-> v, heap |-> render(v, heap)]

ViewBase_update_size_keeping_ratio(self, w, h, heap, r) ==
    IF h = 0 THEN [self |-> self, heap |-> heap, renderer |-> r, rendered |-> FALSE]
    ELSE LET u == DrawBuffer_update_size(self.draw_buf, w, h, heap, r)
             resized == [self EXCEPT !.draw_buf = u.self]
         IN  IF u.ret
             THEN [self |-> resized, heap |-> render(resized, u.heap),
                   renderer |-> u.renderer, rendered |-> TRUE]
             ELSE [self |-> resized, heap |-> u.heap, renderer |-> u.renderer,
                   rendered |-> FALSE]

\* ViewBase::update_size
ViewBase_update_size(self, w, h, heap, r) ==
    IF h = 0 THEN [self |-> self, heap |-> heap, renderer |-> r, rendered |-> FALSE]
    ELSE LET u == DrawBuffer_update_size(self.draw_buf, w, h, heap, r)
             resized == [self EXCEPT !.draw_buf = u.self]
             v == [resized EXCEPT !.wh_ratio = Rat(w, h)]
         IN  IF u.ret
             THEN [self |-> v, heap |-> render(v, u.heap), renderer |-> u.renderer,
                   rendered |-> TRUE]
             ELSE [self |-> resized, heap |-> u.heap, renderer |-> u.renderer,
                   rendered |-> FALSE]

\* ViewBase::rotate_by_dragging
rotate_by_dragging(self, start, end, heap) ==
    LET v == IF self.drag_rotation = "Free"
             THEN rotate_free(self, start, end)
             ELSE rotate_nsew(self, start, end)
    IN  [self |-> v, heap |-> render(v, heap), rendered |-> TRUE]

----------------------------------------------------------------------------
(* data.rs: the meshes built at start-up.  Indices count from 0 as in the  *)
(* code: the index x of index_data is the vertex vertex_data[x + 1].       *)

\* The step of the globe mesh of the program, in degrees.
GLOBE_STEP == 2

\* The steps tried: the program's, and the coarser ones.
Steps == {GLOBE_STEP} \cup (MinStep..MaxStep)

\* v_index!(i_lon, i_lat)
v_index(i_lon, i_lat, grid_size_lon) == i_lon + i_lat * grid_size_lon

\* create_globe_mesh: the vertices of the grid, then the two caps.
globe_vertex_data(step, grid_size_lon, grid_size_lat) ==
    [n \in 1..(grid_size_lon * grid_size_lat) |->
        [lonlat_position |-> <<-180 + ((n - 1) % grid_size_lon) * step,
                                -90 + step + ((n - 1) \div grid_size_lon) * step>>]]
    \o <<[lonlat_position |-> <<0, -90>>], [lonlat_position |-> <<0, 90>>]>>

globe_cell_indices_main_diagonal(grid_size_lon, grid_size_lat) ==
    [n \in 1..(grid_size_lon * (grid_size_lat - 1) * 6) |->
        LET i_lon == ((n - 1) \div 6) \div (grid_size_lat - 1)
            i_lat == ((n - 1) \div 6) % (grid_size_lat - 1)
            at == (n - 1) % 6
        IN  IF at = 0 THEN v_index(i_lon, i_lat, grid_size_lon)
            ELSE IF at = 1 THEN v_index(i_lon, i_lat + 1, grid_size_lon)
            ELSE IF at = 2 THEN v_index(i_lon + 1, i_lat + 1, grid_size_lon)
            ELSE IF at = 3 THEN v_index(i_lon, i_lat, grid_size_lon)
            ELSE IF at = 4 THEN v_index(i_lon + 1, i_lat + 1, grid_size_lon)
            ELSE v_index(i_lon + 1, i_lat, grid_size_lon)]

\* create_globe_mesh: two triangles per grid cell, column by column.
globe_cell_indices(grid_size_lon, grid_size_lat) ==
    [n \in 1..(grid_size_lon * (grid_size_lat - 1) * 6) |->
        LET i_lon == ((n - 1) \div 6) \div (grid_size_lat - 1)
            i_lat == ((n - 1) \div 6) % (grid_size_lat - 1)
            at == (n - 1) % 6
        IN  IF at = 0 THEN v_index(i_lon, i_lat, grid_size_lon)
            ELSE IF at = 1 THEN v_index(i_lon, i_lat + 1, grid_size_lon)
            ELSE IF at = 2 THEN v_index(i_lon + 1, i_lat, grid_size_lon)
            ELSE IF at = 3 THEN v_index(i_lon + 1, i_lat, grid_size_lon)
            ELSE IF at = 4 THEN v_index(i_lon, i_lat + 1, grid_size_lon)
            ELSE v_index(i_lon + 1, i_lat + 1, grid_size_lon)]

\* create_globe_mesh: a south cap and a north cap triangle per column.
globe_cap_indices(grid_size_lon, grid_size_lat, s_cap_idx, n_cap_idx) ==
    [n \in 1..(grid_size_lon * 6) |->
        LET i_lon == (n - 1) \div 6
            at == (n - 1) % 6
        IN  IF at = 0 THEN v_index(i_lon, 0, grid_size_lon)
            ELSE IF at = 1 THEN v_index(i_lon + 1, 0, grid_size_lon)
            ELSE IF at = 2 THEN s_cap_idx
            ELSE IF at = 3 THEN v_index(i_lon, grid_size_lat - 1, grid_size_lon)
            ELSE IF at = 4 THEN v_index(i_lon + 1, grid_size_lat - 1, grid_size_lon)
            ELSE n_cap_idx]

\* What a usize subtraction below zero ends in: a panic where overflow
\* checks are compiled in (debug), else the value wraps to nearly 2^64 and
\* the loop over it runs until memory is exhausted.
Underflow(overflow_checks) ==
    IF overflow_checks
    THEN [status |-> "panic: attempt to subtract with overflow"]
    ELSE [status |-> "memory exhausted"]

\* create_globe_mesh, for a step of whole degrees
create_globe_mesh(step, overflow_checks) ==
    IF 360 % step # 0 THEN [status |-> "panic: assertion failed"]
    ELSE LET grid_size_lon == (360 \div step) + 1
             grid_size_lat == (180 \div step) - 1
             s_cap_idx == grid_size_lon * grid_size_lat
             n_cap_idx == s_cap_idx + 1
         IN  IF grid_size_lat < 0 \/ grid_size_lat - 1 < 0 THEN Underflow(overflow_checks)
             ELSE [status |-> "ok",
                   vertex_data |-> globe_vertex_data(step, grid_size_lon, grid_size_lat),
                   index_data |-> globe_cell_indices(grid_size_lon, grid_size_lat)
                                  \o globe_cap_indices(grid_size_lon, grid_size_lat,
                                                       s_cap_idx, n_cap_idx)]

\* create_graticule: the values that a loop variable takes in
\* `x = -limit; while x <= limit { ..; x += inc }`, in exact arithmetic.
loop_values(limit, inc) ==
    LET times == {n \in 0..(2 * limit * inc[2]) :
                     RLe(RAdd(RInt(-limit), RMul(RInt(n), inc)), RInt(limit))}
    IN  [n \in 1..Cardinality(times) |-> RAdd(RInt(-limit), RMul(RInt(n - 1), inc))]

\* create_graticule: the vertices of one pass, line after line.  `fixed`
\* holds the longitudes of the lines when they run along the latitude, else
\* their latitudes, and `moving` the values of the other coordinate.
pass_vertices(along, fixed, moving) ==
    [n \in 1..(Len(fixed) * Len(moving)) |->
        LET line == fixed[((n - 1) \div Len(moving)) + 1]
            point == moving[((n - 1) % Len(moving)) + 1]
        IN  [lonlat_position |-> IF along = "latitude" THEN <<line, point>>
                                 ELSE <<point, line>>]]

pass_indices_joined(lines, points, before) ==
    [n \in 1..(2 * (lines * points - 1)) |-> before + ((n - 1) \div 2) + ((n - 1) % 2)]

\* create_graticule: the indices of one pass of so many lines of so many
\* points, after `before` vertices: on every line, a pair for every point
\* but the one that starts the line.
pass_indices(lines, points, before) ==
    [n \in 1..(lines * 2 * (points - 1)) |->
        LET line == (n - 1) \div (2 * (points - 1))
            at == (n - 1) % (2 * (points - 1))
        IN  before + line * points + (at \div 2) + (at % 2)]

\* create_graticule, for a step of whole degrees: the lines of constant
\* longitude, then the lines of constant latitude.
create_graticule(step, num_substeps) ==
    LET inc == Rat(step, num_substeps)
        longitudes == loop_values(180, RInt(step))
        latitudes == loop_values(90, RInt(step))
        along_latitude == loop_values(90, inc)
        along_longitude == loop_values(180, inc)
        first == pass_vertices("latitude", longitudes, along_latitude)
    IN  [vertex_data |-> first \o pass_vertices("longitude", latitudes, along_longitude),
         index_data |-> pass_indices(Len(longitudes), Len(along_latitude), 0)
                        \o pass_indices(Len(latitudes), Len(along_longitude), Len(first))]

\* The vertices and indices that the points of one part add, after
\* `before` vertices.
part_vertices(part) == [n \in 1..Len(part) |-> [lonlat_position |-> part[n]]]

part_indices_joining(part, before) ==
    [n \in 1..(2 * (Len(part) - (IF before = 0 THEN 1 ELSE 0))) |->
        before - (IF before = 0 THEN 0 ELSE 1) + ((n - 1) \div 2) + ((n - 1) % 2)]

part_indices(part, before) ==
    [n \in 1..(2 * (Len(part) - 1)) |-> before + ((n - 1) \div 2) + ((n - 1) % 2)]

\* create_map_from_shape_file: the loop over the parts of a polyline
RECURSIVE add_parts(_, _)
add_parts(parts, acc) ==
    IF parts = <<>> THEN acc
    ELSE add_parts(Tail(parts),
                   [vertex_data |-> acc.vertex_data \o part_vertices(Head(parts)),
                    index_data |-> acc.index_data
                                   \o part_indices(Head(parts), Len(acc.vertex_data))])

RECURSIVE add_shapes_any_kind(_, _)
add_shapes_any_kind(shapes, acc) ==
    IF shapes = <<>> THEN acc
    ELSE add_shapes_any_kind(Tail(shapes), add_parts(Head(shapes).parts, acc))

\* create_map_from_shape_file: the loop over the shapes of the file
RECURSIVE add_shapes(_, _)
add_shapes(shapes, acc) ==
    IF shapes = <<>> THEN acc
    ELSE add_shapes(Tail(shapes),
                    IF Head(shapes).kind = "Polyline"
                    THEN add_parts(Head(shapes).parts, acc)
                    ELSE acc)

\* create_map_from_shape_file, for the shapes read from the file
create_map_from_shape_file(shapes) ==
    add_shapes(shapes, [vertex_data |-> <<>>, index_data |-> <<>>])

----------------------------------------------------------------------------
(* The values that keep textures alive. *)

Roots(vs, bufs, r) ==
    UNION {BufferRefs(bufs[i]) : i \in DOMAIN bufs}
    \cup UNION {UNION {BufferRefs(vs[k][i].draw_buf) : i \in 1..Len(vs[k])} : k \in DOMAIN vs}
    \cup {r.textures[i] : i \in DOMAIN r.textures}

----------------------------------------------------------------------------
(* The state after start-up: no texture, no render target, no view. *)

Init ==
    /\ gl = <<>>
    /\ renderer = [textures |-> <<>>, next |-> 0]
    /\ dbufs = <<>>
    /\ id_counter = 0
    /\ views = [k \in Kinds |-> <<>>]
    /\ last = [op |-> "init", ret |-> FALSE, arg |-> <<>>]

----------------------------------------------------------------------------
(* A client of draw_buffer.rs: every public operation of DrawBuffer. *)

DbNew(s) ==
    /\ dbufs = <<>>
    /\ LET n == DrawBuffer_new(s, gl, renderer)
       IN  /\ dbufs' = Append(dbufs, n.self)
           /\ renderer' = n.renderer
           /\ gl' = Collect(n.heap, Roots(views, dbufs', renderer'))
    /\ last' = [op |-> "new", ret |-> FALSE]
    /\ UNCHANGED <<id_counter, views>>

DbNewWithSize(s, w, h) ==
    /\ dbufs = <<>>
    /\ LET n == DrawBuffer_new_with_size(s, gl, renderer, w, h)
       IN  /\ dbufs' = Append(dbufs, n.self)
           /\ renderer' = n.renderer
           /\ gl' = Collect(n.heap, Roots(views, dbufs', renderer'))
    /\ last' = [op |-> "new_with_size", ret |-> FALSE]
    /\ UNCHANGED <<id_counter, views>>

DbUpdateSize(i, w, h) ==
    /\ i \in DOMAIN dbufs
    /\ LET u == DrawBuffer_update_size(dbufs[i], w, h, gl, renderer)
       IN  /\ dbufs' = [dbufs EXCEPT ![i] = u.self]
           /\ renderer' = u.renderer
           /\ gl' = Collect(u.heap, Roots(views, dbufs', renderer'))
           /\ last' = [op |-> "update_size", ret |-> u.ret]
    /\ UNCHANGED <<id_counter, views>>

DbSetSampling(i, s) ==
    /\ i \in DOMAIN dbufs
    /\ LET u == set_sampling(dbufs[i], s, gl, renderer)
       IN  /\ dbufs' = [dbufs EXCEPT ![i] = u.self]
           /\ renderer' = u.renderer
           /\ gl' = Collect(u.heap, Roots(views, dbufs', renderer'))
    /\ last' = [op |-> "set_sampling", ret |-> FALSE]
    /\ UNCHANGED <<id_counter, views>>

DbPaint(i, f) ==
    /\ i \in DOMAIN dbufs
    /\ gl' = PaintFrame(dbufs[i], f, gl)
    /\ last' = [op |-> "frame_buf", ret |-> FALSE]
    /\ UNCHANGED <<renderer, dbufs, id_counter, views>>

DbUpdateStorageBuf(i) ==
    /\ i \in DOMAIN dbufs
    /\ gl' = update_storage_buf(dbufs[i], gl)
    /\ last' = [op |-> "update_storage_buf", ret |-> FALSE]
    /\ UNCHANGED <<renderer, dbufs, id_counter, views>>

NextDrawBuffer ==
    \/ \E s \in Samplings : DbNew(s)
    \/ \E s \in Samplings, w \in Dims, h \in Dims : DbNewWithSize(s, w, h)
    \/ \E i \in DOMAIN dbufs, w \in Dims \cup {INITIAL_DRAW_BUF_SIZE},
          h \in Dims \cup {INITIAL_DRAW_BUF_SIZE} : DbUpdateSize(i, w, h)
    \/ \E i \in DOMAIN dbufs, s \in Samplings : DbSetSampling(i, s)
    \/ \E i \in DOMAIN dbufs, f \in Frames : DbPaint(i, f)
    \/ \E i \in DOMAIN dbufs : DbUpdateStorageBuf(i)

SpecDrawBuffer == Init /\ [][NextDrawBuffer]_vars

----------------------------------------------------------------------------
(* A client of views/base.rs that holds one view and calls the public      *)
(* operations of ViewBase on it.                                           *)

\* What the last call was and, in after_set_orientation, whether the call
\* before it was a set_orientation and with which orientation.
Did(op, arg) ==
    [op |-> op, ret |-> FALSE, arg |-> arg,
     after_set_orientation |-> IF last.op = "set_orientation" THEN <<last.arg>> ELSE <<>>]

\* The same, for a call that says whether it rendered the view.
DidRendering(op, arg, rendered) ==
    [op |-> op, ret |-> FALSE, arg |-> arg,
     after_set_orientation |-> IF last.op = "set_orientation" THEN <<last.arg>> ELSE <<>>,
     rendered |-> rendered]

NoView == \A k \in Kinds : views[k] = <<>>

\* OrthographicView::new and the like
NewView(k) ==
    /\ NoView
    /\ LET n == View_new(k, id_counter, gl, renderer)
       IN  /\ views' = [views EXCEPT ![k] = Append(@, n.self)]
           /\ id_counter' = n.counter
           /\ renderer' = n.renderer
           /\ gl' = Collect(n.heap, Roots(views', dbufs, renderer'))
    /\ last' = Did("new", k)
    /\ UNCHANGED dbufs

SetOrientation(k, i, q) ==
    /\ LET r == set_orientation(views[k][i], q, gl)
       IN  /\ views' = [views EXCEPT ![k][i] = r.self]
           /\ gl' = Collect(r.heap, Roots(views', dbufs, renderer))
           /\ last' = DidRendering("set_orientation", q, r.rendered)
    /\ UNCHANGED <<renderer, dbufs, id_counter>>

SetDragRotation(k, i, m) ==
    /\ LET r == set_drag_rotation(views[k][i], m, gl)
       IN  /\ views' = [views EXCEPT ![k][i] = r.self]
           /\ gl' = Collect(r.heap, Roots(views', dbufs, renderer))
           /\ last' = DidRendering("set_drag_rotation", m, r.rendered)
    /\ UNCHANGED <<renderer, dbufs, id_counter>>

\* The zoom values the model holds: the values that are no fractions, and
\* the fractions of a bounded numerator and denominator.
ZoomInBox(z) == IsFinite(z) => AbsInt(z[1]) <= MaxZoomNum /\ z[2] <= MaxZoomDen

ZoomBy(k, i, f) ==
    /\ Nameable(views[k][i].zoom, f)
    /\ LET r == zoom_by(views[k][i], f, gl)
       IN  /\ ZoomInBox(r.self.zoom)
           /\ views' = [views EXCEPT ![k][i] = r.self]
           /\ gl' = Collect(r.heap, Roots(views', dbufs, renderer))
           /\ last' = DidRendering("zoom_by", f, r.rendered)
    /\ UNCHANGED <<renderer, dbufs, id_counter>>

RotateByDragging(k, i, start, end) ==
    /\ LET r == rotate_by_dragging(views[k][i], start, end, gl)
       IN  /\ IsFinite(r.self.angle_ew) => RLe(RAbs(r.self.angle_ew), RInt(MaxEw))
           /\ Len(r.self.orientation.rot) <= MaxRot
           /\ views' = [views EXCEPT ![k][i] = r.self]
           /\ gl' = Collect(r.heap, Roots(views', dbufs, renderer))
           /\ last' = DidRendering("rotate_by_dragging", <<start, end>>, r.rendered)
    /\ UNCHANGED <<renderer, dbufs, id_counter>>

UpdateSize(k, i, w, h) ==
    /\ LET r == ViewBase_update_size(views[k][i], w, h, gl, renderer)
       IN  /\ views' = [views EXCEPT ![k][i] = r.self]
           /\ renderer' = r.renderer
           /\ gl' = Collect(r.heap, Roots(views', dbufs, renderer'))
           /\ last' = DidRendering("update_size", <<w, h>>, r.rendered)
    /\ UNCHANGED <<dbufs, id_counter>>

SetViewMode(k, i, m) ==
    /\ LET r == set_view_mode(views[k][i], m, gl)
       IN  /\ views' = [views EXCEPT ![k][i] = r.self]
           /\ gl' = Collect(r.heap, Roots(views', dbufs, renderer))
    /\ last' = Did("set_view_mode", m)
    /\ UNCHANGED <<renderer, dbufs, id_counter>>

\* The graticule checkbox of handle_view_common: it writes the public
\* field draw_graticule and calls refresh when the value changed.
SetDrawGraticule(k, i, b) ==
    /\ b # views[k][i].draw_graticule
    /\ LET v == [views[k][i] EXCEPT !.draw_graticule = b]
       IN  /\ views' = [views EXCEPT ![k][i] = v]
           /\ gl' = Collect(refresh(v, gl), Roots(views', dbufs, renderer))
    /\ last' = Did("refresh", b)
    /\ UNCHANGED <<renderer, dbufs, id_counter>>

\* The orientations, zoom factors and drags the client passes.
Orientations == {One, from_angle_y(ROne), Mul(from_angle_z(ROne), from_angle_y(RHalf))}

Points == {<<0, 0>>, <<1, 0>>, <<0, 1>>}

\* The null drag at every point, a drag to the right and a drag upwards.
Drags == {<<p, p>> : p \in Points} \cup {<<<<0, 0>>, <<1, 0>>>>, <<<<0, 0>>, <<0, 1>>>>}

CameraZoomFactors == {RHalf, RInt(2)}

\* MOUSE_WHEEL_ZOOM_FACTOR
WHEEL_NUM == 6
WHEEL_DEN == 5

\* The factors of one wheel notch either way, and others.
ZoomFactors ==
    {<<WHEEL_NUM, WHEEL_DEN>>, <<WHEEL_DEN, WHEEL_NUM>>,
     <<1, 10>>, RHalf, RInt(2), RInt(3), RZero, RInt(-1), F64_MAX}

\* Camera: orientation, rotation mode, zoom and drags of one view.
NextCamera ==
    \/ \E k \in Kinds : NewView(k)
    \/ \E k \in Kinds : \E i \in DOMAIN views[k] :
          \/ \E q \in Orientations : SetOrientation(k, i, q)
          \/ \E m \in DragRotations : SetDragRotation(k, i, m)
          \/ \E f \in CameraZoomFactors :
                /\ FLe(FMul(views[k][i].zoom, f), RInt(MaxCameraZoom))
                /\ ZoomBy(k, i, f)
          \/ \E d \in Drags : RotateByDragging(k, i, d[1], d[2])

SpecCamera == Init /\ [][NextCamera]_vars

\* Zoom: the zoom of one view, under every kind of factor.
NextZoom ==
    \/ \E k \in Kinds : NewView(k)
    \/ \E k \in Kinds : \E i \in DOMAIN views[k] : \E f \in ZoomFactors : ZoomBy(k, i, f)

SpecZoom == Init /\ [][NextZoom]_vars

\* Panel: the size, the view mode and the graticule of one view.
NextPanel ==
    \/ \E k \in Kinds : NewView(k)
    \/ \E k \in Kinds : \E i \in DOMAIN views[k] :
          \/ \E w \in Dims, h \in Dims : UpdateSize(k, i, w, h)
          \/ \E m \in ViewModes : SetViewMode(k, i, m)
          \/ \E b \in BOOLEAN : SetDrawGraticule(k, i, b)

SpecPanel == Init /\ [][NextPanel]_vars

----------------------------------------------------------------------------
(* The GUI (gui/mod.rs): views are created from the main menu and closed   *)
(* with their panel's close button.                                        *)

OpenViews == UNION {{<<k, i>> : i \in DOMAIN views[k]} : k \in Kinds}

View(v) == views[v[1]][v[2]]

\* Vec::retain_mut with a closure that is false for the i-th element only.
RemoveAt(seq, i) == SubSeq(seq, 1, i - 1) \o SubSeq(seq, i + 1, Len(seq))

\* The physical sizes of a panel's image area.
PanelSizes == {<<INITIAL_DRAW_BUF_SIZE, INITIAL_DRAW_BUF_SIZE>>, <<2, 1>>}

\* handle_gui in a frame in which a kind is chosen in the View > New menu:
\* handle_main_menu creates the view and pushes it to the kind's list, then
\* the view's panel is handled for the first time and handle_view_common
\* calls update_size with the size (w, h) of the panel's image area.
AddView(k, w, h) ==
    /\ Cardinality(OpenViews) < MaxViews
    /\ id_counter < MaxIds
    /\ \E n \in {View_new(k, id_counter, gl, renderer)} :
       \E r \in {ViewBase_update_size(n.self, w, h, n.heap, n.renderer)} :
           /\ views' = [views EXCEPT ![k] = Append(@, r.self)]
           /\ id_counter' = n.counter
           /\ renderer' = r.renderer
           /\ gl' = Collect(r.heap, Roots(views', dbufs, renderer'))
    /\ last' = Did("add_view", <<k, w, h>>)
    /\ UNCHANGED dbufs

CloseView_closing_the_kind(k, i) ==
    /\ views' = [views EXCEPT ![k] = <<>>]
    /\ gl' = Collect(gl, Roots(views', dbufs, renderer))
    /\ last' = Did("close_view", views[k][i].unique_id)
    /\ UNCHANGED <<renderer, dbufs, id_counter>>

\* handle_gui in a frame in which the close button of a panel is pressed:
\* the view's handler returns false, retain_mut removes and drops the view.
CloseView(k, i) ==
    /\ views' = [views EXCEPT ![k] = RemoveAt(@, i)]
    /\ gl' = Collect(gl, Roots(views', dbufs, renderer))
    /\ last' = Did("close_view", views[k][i].unique_id)
    /\ UNCHANGED <<renderer, dbufs, id_counter>>

\* Lifecycle: views are created and closed.
NextLifecycle ==
    \/ \E k \in Kinds : \E s \in PanelSizes : AddView(k, s[1], s[2])
    \/ \E k \in Kinds : \E i \in DOMAIN views[k] : CloseView(k, i)

SpecLifecycle == Init /\ [][NextLifecycle]_vars

\* The number of properties in which a view differs from the view that
\* ViewBase::new returns.
Changed(heap, v) ==
    (IF v.zoom # ROne THEN 1 ELSE 0)
    + (IF v.view_mode # "GlobeTexture" THEN 1 ELSE 0)
    + (IF ~v.draw_graticule THEN 1 ELSE 0)
    + (IF v.drag_rotation # "NSEW" THEN 1 ELSE 0)
    + (IF ~BasisEq(v.orientation, One) THEN 1 ELSE 0)
    + (IF <<width(heap, v.draw_buf), height(heap, v.draw_buf)>>
          # <<INITIAL_DRAW_BUF_SIZE, INITIAL_DRAW_BUF_SIZE>> THEN 1 ELSE 0)

\* The same, summed over the views of a list and over all open views.
RECURSIVE ChangedIn(_, _)
ChangedIn(heap, list) ==
    IF list = <<>> THEN 0 ELSE Changed(heap, Head(list)) + ChangedIn(heap, Tail(list))

RECURSIVE ChangedOf(_, _, _)
ChangedOf(heap, vs, kinds) ==
    IF kinds = {} THEN 0
    ELSE LET k == CHOOSE x \in kinds : TRUE
         IN  ChangedIn(heap, vs[k]) + ChangedOf(heap, vs, kinds \ {k})

\* The gestures of handle_view_common: a wheel notch either way, and a drag
\* (of a non-zero delta) to the right or upwards.
WheelFactors == {<<WHEEL_NUM, WHEEL_DEN>>, <<WHEEL_DEN, WHEEL_NUM>>}

GuiDrags == {d \in Drags : d[1] # d[2]}

\* handle_view_common for the panel of the view (k, i), in a frame with one
\* input to that panel.
HandleViewCommon(k, i) ==
    \/ SetOrientation(k, i, One)
    \/ \E b \in BOOLEAN : SetDrawGraticule(k, i, b)
    \/ \E m \in ViewModes : SetViewMode(k, i, m)
    \/ \E m \in DragRotations : SetDragRotation(k, i, m)
    \/ \E s \in PanelSizes : UpdateSize(k, i, s[1], s[2])
    \/ \E f \in WheelFactors : ZoomBy(k, i, f)
    \/ \E d \in GuiDrags : RotateByDragging(k, i, d[1], d[2])

\* The GUI: views are created, used and closed.
NextApp ==
    \/ \E k \in Kinds : \E s \in PanelSizes :
          /\ id_counter - Cardinality(OpenViews) <= MaxClosed
          /\ AddView(k, s[1], s[2])
          /\ ChangedOf(gl', views', Kinds) <= MaxChanged
    \/ \E k \in Kinds : \E i \in DOMAIN views[k] :
          HandleViewCommon(k, i) /\ ChangedOf(gl', views', Kinds) <= MaxChanged
    \/ \E k \in Kinds : \E i \in DOMAIN views[k] : CloseView(k, i)

SpecApp == Init /\ [][NextApp]_vars

----------------------------------------------------------------------------
(* ProgramData::new builds the globe mesh and the vector map at start-up.  *)

\* A polyline whose parts have the given numbers of points; a point is
\* <<x, y>>, here the place in the part and the number of the part.
Polyline(lens) ==
    [kind |-> "Polyline",
     parts |-> [p \in 1..Len(lens) |-> [i \in 1..lens[p] |-> <<i, p>>]]]

\* The shapes of a file: polylines, and shapes of kinds the loader skips
\* (their points are in parts as well).
ShapeEntries ==
    {Polyline(lens) : lens \in UNION {[1..n -> 1..MaxPoints] : n \in 1..MaxParts}}
    \cup {[kind |-> "Point", parts |-> <<<< <<1, 1>> >>>>],
          [kind |-> "Polygon", parts |-> <<<< <<1, 1>>, <<2, 1>>, <<1, 2>>, <<1, 1>> >>>>]}

ShapeFiles == UNION {[1..n -> ShapeEntries] : n \in 0..MaxShapes}

\* The step and substeps of the graticule of the program.
GRATICULE_STEP == 10
GRATICULE_SUBSTEPS == 10

\* The graticules tried: the program's, and coarser ones.
GraticuleArgs ==
    {<<GRATICULE_STEP, GRATICULE_SUBSTEPS>>}
    \cup {<<step, n>> : step \in {x \in MinStep..MaxStep : x % GRATICULE_STEP = 0},
                         n \in 1..MaxSubsteps}

CreateGraticule(step, num_substeps) ==
    /\ last.op = "init"
    /\ last' = [op |-> "create_graticule", arg |-> <<step, num_substeps>>,
                ret |-> create_graticule(step, num_substeps)]
    /\ UNCHANGED <<gl, renderer, dbufs, id_counter, views>>

CreateGlobeMesh(step, overflow_checks) ==
    /\ last.op = "init"
    /\ last' = [op |-> "create_globe_mesh", arg |-> step,
                ret |-> create_globe_mesh(step, overflow_checks)]
    /\ UNCHANGED <<gl, renderer, dbufs, id_counter, views>>

CreateMapFromShapeFile(shapes) ==
    /\ last.op = "init"
    /\ last' = [op |-> "create_map_from_shape_file", arg |-> shapes,
                ret |-> create_map_from_shape_file(shapes)]
    /\ UNCHANGED <<gl, renderer, dbufs, id_counter, views>>

NextMeshes ==
    \/ \E step \in Steps : \E overflow_checks \in BOOLEAN :
          CreateGlobeMesh(step, overflow_checks)
    \/ \E a \in GraticuleArgs : CreateGraticule(a[1], a[2])
    \/ \E shapes \in ShapeFiles : CreateMapFromShapeFile(shapes)

SpecMeshes == Init /\ [][NextMeshes]_vars

----------------------------------------------------------------------------
(* Claims about the render target, under SpecDrawBuffer. *)

AllDims == Dims \cup {INITIAL_DRAW_BUF_SIZE}

\* C1: through every resize (DrawBuffer::update_size) and set_sampling a
\* DrawBuffer keeps the display handle (id) it got at creation, and the
\* renderer's texture table maps that handle to the DrawBuffer's current
\* storage texture.
C1_HandleStable ==
    [][\A i \in DOMAIN dbufs' :
          /\ dbufs'[i].id \in DOMAIN renderer'.textures
          /\ renderer'.textures[dbufs'[i].id] = dbufs'[i].storage_buf
          /\ dbufs'[i].storage_buf \in DOMAIN gl'
          /\ i \in DOMAIN dbufs => dbufs'[i].id = dbufs[i].id]_vars

C1_Witness ==
    /\ dbufs # <<>>
    /\ last.op = "set_sampling"
    /\ width(gl, dbufs[1]) \in 1..MaxDim
    /\ renderer.textures[dbufs[1].id] = dbufs[1].storage_buf

\* C2: update_size with the current size changes nothing and returns false;
\* with another size it returns true, and the draw, depth and storage
\* textures are three new textures of exactly the new size, the sampling
\* and the handle being kept.
C2_ResizeEffect ==
    [][\A i \in DOMAIN dbufs, w \in AllDims, h \in AllDims :
          DbUpdateSize(i, w, h) =>
              IF w = width(gl, dbufs[i]) /\ h = height(gl, dbufs[i])
              THEN /\ dbufs' = dbufs
                   /\ gl' = gl
                   /\ renderer' = renderer
                   /\ last'.ret = FALSE
              ELSE /\ last'.ret = TRUE
                   /\ BufferRefs(dbufs'[i]) \cap BufferRefs(dbufs[i]) = {}
                   /\ Cardinality(BufferRefs(dbufs'[i])) = 3
                   /\ \A n \in BufferRefs(dbufs'[i]) :
                          /\ gl'[n].width = w
                          /\ gl'[n].height = h
                          /\ gl'[n].content = <<>>
                   /\ sampling(dbufs'[i].draw_bufs) = sampling(dbufs[i].draw_bufs)
                   /\ gl'[dbufs'[i].draw_bufs.draw].samples = gl[dbufs[i].draw_bufs.draw].samples
                   /\ dbufs'[i].id = dbufs[i].id]_vars

C2_Witness ==
    /\ dbufs # <<>>
    /\ last.op = "update_size"
    /\ last.ret = TRUE
    /\ sampling(dbufs[1].draw_bufs) = "Multi"
    /\ width(gl, dbufs[1]) = 1
    /\ height(gl, dbufs[1]) = MaxDim

\* C3: the draw texture, the depth texture and the storage texture of a
\* DrawBuffer always have the same width and the same height.
C3_SameDimensions ==
    \A i \in DOMAIN dbufs :
        LET db == dbufs[i]
        IN  /\ gl[db.draw_bufs.draw].width = gl[db.storage_buf].width
            /\ gl[db.draw_bufs.depth].width = gl[db.storage_buf].width
            /\ gl[db.draw_bufs.draw].height = gl[db.storage_buf].height
            /\ gl[db.draw_bufs.depth].height = gl[db.storage_buf].height

C3_Witness ==
    /\ dbufs # <<>>
    /\ last.op = "set_sampling"
    /\ gl[dbufs[1].draw_bufs.depth].width = 1
    /\ gl[dbufs[1].draw_bufs.depth].height = MaxDim

\* C4 (as claimed): set_sampling leaves the storage texture, with the frame
\* last resolved into it, and the display handle as they were.
C4_StorageKept ==
    [][\A i \in DOMAIN dbufs, s \in Samplings :
          DbSetSampling(i, s) =>
              /\ dbufs'[i].id = dbufs[i].id
              /\ dbufs'[i].storage_buf = dbufs[i].storage_buf
              /\ gl'[dbufs'[i].storage_buf] = gl[dbufs[i].storage_buf]]_vars


----------------------------------------------------------------------------
(* Claims about a view's render target, under SpecPanel. *)

\* C5: after any sequence of update_size(width, height) calls with
\* non-negative width and height, the render target of a view has
\* width >= 1 and height >= 1, and no texture has a zero dimension.
C5_NoZeroDimension ==
    /\ \A v \in OpenViews :
          width(gl, View(v).draw_buf) >= 1 /\ height(gl, View(v).draw_buf) >= 1
    /\ \A t \in DOMAIN gl : gl[t].width >= 1 /\ gl[t].height >= 1

----------------------------------------------------------------------------
(* Claims about the camera, under SpecCamera. *)

C7_FreeAnglesZero ==
    \A v \in OpenViews :
        View(v).drag_rotation = "Free" =>
            View(v).angle_ns = RZero /\ View(v).angle_ew = RZero

\* C7, amended: a step that ends in free mode leaves both accumulated
\* angles as they were, except set_orientation, which sets them to zero; a
\* view created in free mode has them zero.  (set_drag_rotation(Free) keeps
\* the angles accumulated in NSEW mode.)
C7_FreeAnglesKept ==
    [][\A k \in Kinds : \A i \in DOMAIN views'[k] :
          views'[k][i].drag_rotation = "Free" =>
              IF last'.op = "set_orientation" \/ <<k, i>> \notin OpenViews
              THEN views'[k][i].angle_ns = RZero /\ views'[k][i].angle_ew = RZero
              ELSE /\ views'[k][i].angle_ns = views[k][i].angle_ns
                   /\ views'[k][i].angle_ew = views[k][i].angle_ew]_vars

\* A view dragged in free mode while it holds the angles of the NSEW mode
\* it was switched from.
C7_Witness ==
    \E v \in OpenViews :
        /\ View(v).drag_rotation = "Free"
        /\ last.op = "rotate_by_dragging"
        /\ View(v).angle_ns # RZero
        /\ ~View(v).orientation.nan
        /\ Len(View(v).orientation.rot) = 2

\* C9: for every orientation q, set_orientation(q) followed by
\* set_drag_rotation(NSEW) leaves the orientation the identity, both
\* accumulated angles zero and the mode NSEW.
C9_ResetByNSEW ==
    \A v \in OpenViews :
        /\ last.op = "set_drag_rotation"
        /\ last.arg = "NSEW"
        /\ last.after_set_orientation # <<>>
        => /\ BasisEq(View(v).orientation, One)
           /\ View(v).angle_ns = RZero
           /\ View(v).angle_ew = RZero
           /\ View(v).drag_rotation = "NSEW"

\* set_drag_rotation(NSEW) right after set_orientation(q) for a q that is
\* not the identity.
C9_Witness ==
    \E v \in OpenViews :
        /\ last.op = "set_drag_rotation"
        /\ last.arg = "NSEW"
        /\ last.after_set_orientation # <<>>
        /\ ~BasisEq(last.after_set_orientation[1], One)

C11_NsWithinRightAngle ==
    \A v \in OpenViews : FLe(RAbs(View(v).angle_ns), HalfPi)

\* An upward drag at zoom 1/2 (a step of 2 radians) that left angle_ns at
\* -3/2: the drags of the client never raise angle_ns, so the step was
\* refused.
C11_Witness ==
    \E v \in OpenViews :
        /\ View(v).drag_rotation = "NSEW"
        /\ last.op = "rotate_by_dragging"
        /\ last.arg = <<<<0, 0>>, <<0, 1>>>>
        /\ View(v).zoom = RHalf
        /\ View(v).angle_ns = <<-3, 2>>

\* The mutating camera operations (reset is set_orientation(one)).
CameraOps == {"set_orientation", "set_drag_rotation", "zoom_by", "rotate_by_dragging"}

\* The storage texture of every view holds the resolve of a render of the
\* view as it is now.
ShowsCurrentState == \A v \in OpenViews : render(View(v), gl) = gl

\* C14, as stated: every call of a mutating camera operation (reset,
\* set_drag_rotation to either mode, set_orientation, zoom_by,
\* rotate_by_dragging) renders the view before it returns.
C14_AlwaysRenders ==
    last.op \in CameraOps => last.rendered /\ ShowsCurrentState

\* C14, amended: every call of set_orientation (reset included), zoom_by,
\* rotate_by_dragging and set_drag_rotation(NSEW) renders the view before it
\* returns; set_drag_rotation(Free) assigns the mode only and does not
\* render.
C14_RendersUnlessToFree ==
    last.op \in CameraOps =>
        IF last.op = "set_drag_rotation" /\ last.arg = "Free"
        THEN ~last.rendered
        ELSE last.rendered /\ ShowsCurrentState

\* A switch to free mode, of a view turned in NSEW mode, that did not
\* render.
C14_Witness ==
    \E v \in OpenViews :
        /\ last.op = "set_drag_rotation"
        /\ last.arg = "Free"
        /\ ~last.rendered
        /\ View(v).angle_ns # RZero

----------------------------------------------------------------------------
(* Claims about the zoom, under SpecZoom. *)

\* f64 `a >= b`, for a finite b: false when a is NaN.
FGe(a, b) ==
    IF IsFinite(a) THEN RLe(b, a)
    ELSE a \in {Inf, F64_MAX}

\* C8: zoom >= 0.5 holds in every reachable state, for any finite factor
\* passed to zoom_by.
C8_ZoomAtLeastHalf == \A v \in OpenViews : FGe(View(v).zoom, RHalf)

----------------------------------------------------------------------------
(* Claims about the creation and closing of views, under SpecLifecycle. *)

\* C12: across any interleaving of view creations (of any kind) and view
\* closings, every created view receives an id strictly greater than all
\* ids issued before it, and no id is issued twice, also after the view
\* that held it was closed.  (The ids issued so far are those below
\* id_counter: the counter never decreases, a new view takes the counter's
\* value and raises it by one, and the ids of the open views are distinct
\* and below it.)
C12_IdsIncrease ==
    [][/\ id_counter' >= id_counter
       /\ \A k \in Kinds : \A i \in DOMAIN views'[k] :
              /\ views'[k][i].unique_id < id_counter'
              /\ \A k2 \in Kinds : \A i2 \in DOMAIN views'[k2] :
                     views'[k2][i2].unique_id = views'[k][i].unique_id => k2 = k /\ i2 = i
       /\ \A k \in Kinds : \A s \in PanelSizes :
              AddView(k, s[1], s[2]) =>
                  /\ views'[k][Len(views'[k])].unique_id = id_counter
                  /\ id_counter' = id_counter + 1
                  /\ \A v \in OpenViews : View(v).unique_id < id_counter]_vars

\* A view created after an earlier view was closed, beside a view that is
\* still open.
C12_Witness ==
    /\ last.op = "add_view"
    /\ id_counter = 3
    /\ Cardinality(OpenViews) = 2

\* C13: after a view's panel is closed, the texture table holds no entry
\* for the closed view's display handle and nothing keeps its storage
\* texture alive: every table entry and every texture belongs to an open
\* view.
C13_ClosedViewReleased ==
    /\ \A id \in DOMAIN renderer.textures : \E v \in OpenViews : View(v).draw_buf.id = id
    /\ \A t \in DOMAIN gl : \E v \in OpenViews : t \in BufferRefs(View(v).draw_buf)

----------------------------------------------------------------------------
(* Claims about the views of the GUI, under SpecLifecycle and SpecApp. *)

\* C15: at the end of every frame the storage texture shown for each open
\* view, a view created in that frame included, holds the resolve of a
\* render made with the view's current orientation, zoom, view mode,
\* graticule flag and size.
C15_ShowsCurrentState == ShowsCurrentState

\* The ids of the views in vs, and all that belongs to the view of id u:
\* its kind, its fields, its three textures and its texture table entry.
IdsOf(vs) == UNION {{vs[k][i].unique_id : i \in DOMAIN vs[k]} : k \in Kinds}

Owned(vs, heap, r, u) ==
    LET k == CHOOSE x \in Kinds : \E i \in DOMAIN vs[x] : vs[x][i].unique_id = u
        v == vs[k][CHOOSE i \in DOMAIN vs[k] : vs[k][i].unique_id = u]
    IN  [kind |-> k,
         view |-> v,
         draw |-> heap[v.draw_buf.draw_bufs.draw],
         depth |-> heap[v.draw_buf.draw_bufs.depth],
         storage |-> heap[v.draw_buf.storage_buf],
         entry |-> r.textures[v.draw_buf.id]]

\* C20: an operation applied to one view (update_size, a drag, a zoom, a
\* mode switch, a reset, a view mode switch, a graticule toggle, close)
\* leaves every other open view, with its orientation state, zoom, render
\* target, display handle and id, unchanged: in every step there is one
\* view such that every other view is still open and has all that
\* belongs to it as before.
C20_OthersUnchanged ==
    [][\E u \in IdsOf(views) \cup IdsOf(views') :
          \A w \in IdsOf(views) \ {u} :
              /\ w \in IdsOf(views')
              /\ Owned(views', gl', renderer', w) = Owned(views, gl, renderer, w)]_vars

\* Two open views, the second of which was resized, beside the first,
\* which was rendered by a reset and is as a new view again.
C20_Witness ==
    /\ Cardinality(OpenViews) = 2
    /\ last.op = "update_size"
    /\ \E v \in OpenViews :
          /\ View(v).unique_id = 1
          /\ width(gl, View(v).draw_buf) = 2
    /\ \E v \in OpenViews :
          /\ View(v).unique_id = 0
          /\ width(gl, View(v).draw_buf) = INITIAL_DRAW_BUF_SIZE
          /\ render(View(v), gl) = gl

----------------------------------------------------------------------------
(* The meshes. *)

Built(op) == last.op = op

\* C16: create_globe_mesh fails on its assertion exactly when 360 / step is
\* not a whole number, and for every step for which it is one the call
\* completes and returns a mesh.
C16_FailsExactlyOffGrid ==
    Built("create_globe_mesh") =>
        /\ (last.ret.status = "panic: assertion failed") <=> (360 % last.arg # 0)
        /\ (360 % last.arg = 0) => (last.ret.status = "ok")

\* The triangles of an index list.
Triangles(index_data) ==
    {<<index_data[3 * t - 2], index_data[3 * t - 1], index_data[3 * t]>> :
        t \in 1..(Len(index_data) \div 3)}

\* C17: for every step that divides 360, the number of indices of the globe
\* mesh is a multiple of 3, every index is below the number of vertices and
\* no triangle has the same vertex twice.
C17_GlobeMeshValid ==
    (Built("create_globe_mesh") /\ last.ret.status = "ok") =>
        /\ Len(last.ret.index_data) % 3 = 0
        /\ \A n \in DOMAIN last.ret.index_data :
              last.ret.index_data[n] < Len(last.ret.vertex_data)
        /\ \A t \in Triangles(last.ret.index_data) :
              t[1] # t[2] /\ t[2] # t[3] /\ t[1] # t[3]

\* The parts of the polylines of a file, in the order of the file.
RECURSIVE PolylineParts(_)
PolylineParts(shapes) ==
    IF shapes = <<>> THEN <<>>
    ELSE (IF Head(shapes).kind = "Polyline" THEN Head(shapes).parts ELSE <<>>)
         \o PolylineParts(Tail(shapes))

\* The number of points of the first n of the parts.
RECURSIVE PointsBefore(_, _)
PointsBefore(parts, n) ==
    IF n = 0 THEN 0 ELSE PointsBefore(parts, n - 1) + Len(parts[n])

\* The number of pairs of consecutive points of the first n of the parts.
RECURSIVE PairsBefore(_, _)
PairsBefore(parts, n) ==
    IF n = 0 THEN 0 ELSE PairsBefore(parts, n - 1) + (Len(parts[n]) - 1)

\* The segments of an index list, in its order.
Segments(index_data) ==
    [k \in 1..(Len(index_data) \div 2) |-> <<index_data[2 * k - 1], index_data[2 * k]>>]

\* C18: the vector map has exactly one segment for each pair of consecutive
\* points of each part of each polyline and no segment between points of
\* two parts: the number of segments is the sum of (points - 1) over the
\* parts, and two polylines of 2 points give 2 segments.
C18_SegmentsWithinParts ==
    Built("create_map_from_shape_file") =>
        LET parts == PolylineParts(last.arg)
            segments == Segments(last.ret.index_data)
        IN  /\ Len(last.ret.index_data) = 2 * Len(segments)
            /\ Len(segments) = PairsBefore(parts, Len(parts))
            /\ Len(last.ret.vertex_data) = PointsBefore(parts, Len(parts))
            /\ \A p \in DOMAIN parts : \A i \in DOMAIN parts[p] :
                  last.ret.vertex_data[PointsBefore(parts, p - 1) + i].lonlat_position
                      = parts[p][i]
            /\ \A p \in DOMAIN parts : \A i \in 1..(Len(parts[p]) - 1) :
                  Cardinality({k \in DOMAIN segments :
                      segments[k] = <<PointsBefore(parts, p - 1) + i - 1,
                                      PointsBefore(parts, p - 1) + i>>}) = 1
            /\ (last.arg = <<Polyline(<<2>>), Polyline(<<2>>)>>) => Len(segments) = 2

\* Two polylines of 2 points have given the segments 0-1 and 2-3.
C18_Witness ==
    /\ Built("create_map_from_shape_file")
    /\ last.arg = <<Polyline(<<2>>), Polyline(<<2>>)>>
    /\ last.ret.index_data = <<0, 1, 2, 3>>

\* C19: the vector map of a file without shapes has no vertex and no index,
\* and a shape of a kind other than polyline adds no vertex and no index
\* and leaves the vertices and the segments of the other shapes as they are
\* without it.
C19_UnsupportedSkipped ==
    Built("create_map_from_shape_file") =>
        /\ (last.arg = <<>>) =>
              (last.ret.vertex_data = <<>> /\ last.ret.index_data = <<>>)
        /\ last.ret = create_map_from_shape_file(
                          SelectSeq(last.arg, LAMBDA shape : shape.kind = "Polyline"))
        /\ Len(last.ret.vertex_data)
              = PointsBefore(PolylineParts(last.arg), Len(PolylineParts(last.arg)))

\* A file with a point between two polylines has been loaded.
C19_Witness ==
    /\ Built("create_map_from_shape_file")
    /\ Len(last.arg) = 2
    /\ last.arg[1].kind = "Point"
    /\ last.arg[2] = Polyline(<<2, 2>>)
    /\ last.ret.index_data = <<0, 1, 2, 3>>

----------------------------------------------------------------------------
(* Claims about the size of a view, under SpecPanel. *)

\* The size of the render target of a view.
SizeOf(heap, v) == <<width(heap, v.draw_buf), height(heap, v.draw_buf)>>

\* C21: update_size(w, 0) changes nothing and does not render;
\* update_size(w, h) with h > 0 resizes the render target to (w, h), sets the
\* aspect ratio to w / h and renders exactly when (w, h) differs from the
\* current size, and otherwise changes nothing and does not render; so the
\* stored aspect ratio is always the width / height of the render target.
C21_UpdateSize ==
    /\ [](\A v \in OpenViews :
            View(v).wh_ratio = Rat(SizeOf(gl, View(v))[1], SizeOf(gl, View(v))[2]))
    /\ [][\A k \in Kinds : \A i \in DOMAIN views[k] : \A w \in Dims, h \in Dims :
            UpdateSize(k, i, w, h) =>
                IF h = 0 \/ <<w, h>> = SizeOf(gl, views[k][i])
                THEN views' = views /\ gl' = gl /\ renderer' = renderer
                     /\ ~last'.rendered
                ELSE /\ SizeOf(gl', views'[k][i]) = <<w, h>>
                     /\ views'[k][i].wh_ratio = Rat(w, h)
                     /\ last'.rendered
                     /\ render(views'[k][i], gl') = gl'
                     /\ views' = [views EXCEPT ![k][i].wh_ratio = Rat(w, h),
                                               ![k][i].draw_buf = views'[k][i].draw_buf]]_vars

\* A view has been resized to 2 x 1 and rendered with the aspect ratio 2.
C21_Witness ==
    /\ last.op = "update_size"
    /\ last.arg = <<2, 1>>
    /\ last.rendered
    /\ \E v \in OpenViews :
          SizeOf(gl, View(v)) = <<2, 1>> /\ View(v).wh_ratio = RInt(2)

----------------------------------------------------------------------------
(* Further claims about the camera, under SpecCamera. *)

\* An angle limited to [-90, +90] degrees: beyond a limit, the limit.
ClampNs(a) ==
    IF FLt(HalfPi, a) THEN HalfPi
    ELSE IF FLt(a, RMul(RInt(-1), HalfPi)) THEN RMul(RInt(-1), HalfPi)
    ELSE a

\* C22: in NSEW mode rotate_by_dragging(start, end) sets angle_ns to the old
\* angle_ns plus (1 / zoom) * (start.y - end.y), clamped into [-90, +90]
\* degrees, and adds (1 / zoom) * (end.x - start.x) to angle_ew without a
\* clamp, whether or not the north-south part was limited.
C22_NsClamped ==
    [][\A k \in Kinds : \A i \in DOMAIN views[k] :
          (last'.op = "rotate_by_dragging" /\ views[k][i].drag_rotation = "NSEW") =>
              LET start == last'.arg[1]
                  end == last'.arg[2]
                  self == views[k][i]
              IN  /\ views'[k][i].angle_ns
                        = ClampNs(FAdd(self.angle_ns,
                                       FMul(FRecip(self.zoom), RInt(start[2] - end[2]))))
                  /\ views'[k][i].angle_ew
                        = FAdd(self.angle_ew,
                               FMul(FRecip(self.zoom), RInt(end[1] - start[1])))]_vars

\* C23: set_orientation(q) makes q the orientation and zeroes both angles;
\* the mode becomes Free when q is not the identity and stays as it was when
\* q is the identity, so the reset button, set_orientation(identity), never
\* changes the rotation mode.
C23_SetOrientation ==
    [][\A k \in Kinds : \A i \in DOMAIN views[k] :
          last'.op = "set_orientation" =>
              /\ views'[k][i].orientation = last'.arg
              /\ views'[k][i].angle_ns = RZero
              /\ views'[k][i].angle_ew = RZero
              /\ views'[k][i].drag_rotation
                    = IF BasisEq(last'.arg, One) THEN views[k][i].drag_rotation ELSE "Free"]_vars

\* A view in Free mode has been reset and is in Free mode still, and a view
\* is reachable in NSEW mode after a reset as well.
C23_Witness ==
    /\ last.op = "set_orientation"
    /\ last.arg = One
    /\ \E v \in OpenViews :
          View(v).drag_rotation = "Free" /\ View(v).orientation = One

\* C24: in every reachable state the orientation is a valid rotation, also
\* after rotate_by_dragging in Free mode with start = end.
C24_OrientationValid ==
    \A v \in OpenViews : ~View(v).orientation.nan

----------------------------------------------------------------------------
(* Further claims about the globe mesh, under SpecMeshes. *)

\* The columns and rows of grid vertices of the mesh made for a step, and
\* the column and row of the grid vertex with a given index.
GridLon(step) == (360 \div step) + 1
GridLat(step) == (180 \div step) - 1
Col(x, step) == x % GridLon(step)
Row(x, step) == x \div GridLon(step)
IsGrid(x, step) == x < GridLon(step) * GridLat(step)
SouthCap(step) == GridLon(step) * GridLat(step)
NorthCap(step) == SouthCap(step) + 1

GlobeBuilt == Built("create_globe_mesh") /\ last.ret.status = "ok"

\* The three vertices are corners of the grid cell of columns i, i + 1 and
\* rows j, j + 1.
InCell(t, i, j, step) ==
    \A n \in 1..3 :
        /\ IsGrid(t[n], step)
        /\ Col(t[n], step) \in {i, i + 1}
        /\ Row(t[n], step) \in {j, j + 1}

\* The triangle lies in the grid cell that its smallest corner begins.
CellTriangle(t, step) ==
    /\ \A n \in 1..3 : IsGrid(t[n], step)
    /\ LET i == CHOOSE c \in {Col(t[n], step) : n \in 1..3} :
                    \A n \in 1..3 : c <= Col(t[n], step)
           j == CHOOSE r \in {Row(t[n], step) : n \in 1..3} :
                    \A n \in 1..3 : r <= Row(t[n], step)
       IN  i + 1 < GridLon(step) /\ j + 1 < GridLat(step) /\ InCell(t, i, j, step)

\* The triangle joins two neighbours of the given row to the given cap.
CapTriangle(t, row, cap, step) ==
    /\ t[3] = cap
    /\ IsGrid(t[1], step) /\ IsGrid(t[2], step)
    /\ Row(t[1], step) = row /\ Row(t[2], step) = row
    /\ Col(t[2], step) = Col(t[1], step) + 1

\* C25: every triangle of the globe mesh that is not a cap triangle uses
\* three corners of one grid cell, and every cap triangle uses two
\* neighbours of the row nearest its pole and the cap vertex of that pole,
\* in every column, the last one as well.
C25_TrianglesInCells ==
    GlobeBuilt =>
        \A t \in Triangles(last.ret.index_data) :
            \/ CellTriangle(t, last.arg)
            \/ CapTriangle(t, 0, SouthCap(last.arg), last.arg)
            \/ CapTriangle(t, GridLat(last.arg) - 1, NorthCap(last.arg), last.arg)

\* The triangles of an index list, in its order.
TriangleSeq(index_data) ==
    [t \in 1..(Len(index_data) \div 3) |->
        <<index_data[3 * t - 2], index_data[3 * t - 1], index_data[3 * t]>>]

\* Twice the signed area of a triangle of grid vertices in the plane of
\* columns and rows: below zero for a clockwise triangle.
Winding(t, step) ==
    (Col(t[2], step) - Col(t[1], step)) * (Row(t[3], step) - Row(t[1], step))
    - (Row(t[2], step) - Row(t[1], step)) * (Col(t[3], step) - Col(t[1], step))

\* The number of the grid cell of columns i, i + 1 and rows j, j + 1 in the
\* order of the loops: its triangles are the ones numbered 2q - 1 and 2q.
CellNo(i, j, step) == i * (GridLat(step) - 1) + j + 1

\* Each grid cell has exactly two triangles, which share the two corners
\* given by their offsets from the cell's columns and rows, and have the
\* same winding as the triangles of every other cell.
QuadsSplitAlong(a, b) ==
    LET step == last.arg
        tris == TriangleSeq(last.ret.index_data)
    IN  /\ \A i \in 0..(GridLon(step) - 2) : \A j \in 0..(GridLat(step) - 2) :
              LET q == CellNo(i, j, step)
              IN  /\ InCell(tris[2 * q - 1], i, j, step)
                  /\ InCell(tris[2 * q], i, j, step)
                  /\ \A n \in {2 * q - 1, 2 * q} :
                        /\ \E m \in 1..3 : tris[n][m] = v_index(i + a[1], j + a[2], GridLon(step))
                        /\ \E m \in 1..3 : tris[n][m] = v_index(i + b[1], j + b[2], GridLon(step))
                        /\ Winding(tris[n], step) = Winding(tris[1], step)
                        /\ Winding(tris[n], step) # 0
                  /\ {tris[2 * q - 1][m] : m \in 1..3} # {tris[2 * q][m] : m \in 1..3}
        /\ \A n \in DOMAIN tris :
              CellTriangle(tris[n], step) =>
                  \E i \in {Col(tris[n][m], step) : m \in 1..3} :
                  \E j \in {Row(tris[n][m], step) : m \in 1..3} :
                      InCell(tris[n], i, j, step) /\ n \in {2 * CellNo(i, j, step) - 1,
                                                            2 * CellNo(i, j, step)}

\* C26 as stated: each grid quad of the globe mesh is split into exactly two
\* triangles that share the diagonal from vertex (lon, lat) to vertex
\* (lon + 1, lat + 1), with the same winding for every quad.
C26_SplitAlongMainDiagonal ==
    GlobeBuilt => QuadsSplitAlong(<<0, 0>>, <<1, 1>>)

\* C26 as the code has it: each grid quad of the globe mesh is split into
\* exactly two triangles that share the diagonal from vertex (lon, lat + 1)
\* to vertex (lon + 1, lat), with the same winding for every quad.
C26_SplitAlongAntiDiagonal ==
    GlobeBuilt => QuadsSplitAlong(<<0, 1>>, <<1, 0>>)

\* The globe mesh of the program's step, with its 180 x 88 quads, is built.
C26_Witness ==
    /\ GlobeBuilt
    /\ last.arg = GLOBE_STEP
    /\ Len(last.ret.index_data) >= 6 * 180 * 88

\* C27: for every step that divides 360, the globe mesh has
\* (360 / step + 1) * (180 / step - 1) grid vertices, none of them at
\* latitude +90 or -90, and after them exactly 2 pole vertices, the south
\* cap (0, -90) and then the north cap (0, 90), as its last two vertices.
C27_GlobeVertices ==
    (Built("create_globe_mesh") /\ 360 % last.arg = 0) =>
        /\ last.ret.status = "ok"
        /\ LET step == last.arg
               vertex_data == last.ret.vertex_data
               grid == Len(vertex_data) - 2
           IN  /\ grid * step * step = (360 + step) * (180 - step)
               /\ \A n \in 1..grid :
                     vertex_data[n].lonlat_position[2] \notin {-90, 90}
               /\ vertex_data[grid + 1].lonlat_position = <<0, -90>>
               /\ vertex_data[grid + 2].lonlat_position = <<0, 90>>

----------------------------------------------------------------------------
(* The graticule, under SpecMeshes. *)

\* The number of values from -limit to limit in steps of inc.
PointsOnLine(limit, inc) == ((2 * limit * inc[2]) \div inc[1]) + 1

\* The vertices of the first pass: the lines of constant longitude.
FirstPass(step, num_substeps) ==
    PointsOnLine(180, RInt(step)) * PointsOnLine(90, Rat(step, num_substeps))

\* The pass and the line of the vertex with index x.
LineOf(x, step, num_substeps) ==
    IF x < FirstPass(step, num_substeps)
    THEN <<1, x \div PointsOnLine(90, Rat(step, num_substeps))>>
    ELSE <<2, (x - FirstPass(step, num_substeps))
              \div PointsOnLine(180, Rat(step, num_substeps))>>

\* C28: create_graticule emits only segments of 2 points whose indices are
\* consecutive vertices of the same meridian or the same parallel: no
\* segment joins two lines or the two passes, the number of indices is even
\* and every index is below the number of vertices.
C28_GraticuleSegments ==
    Built("create_graticule") =>
        LET step == last.arg[1]
            num_substeps == last.arg[2]
            vertex_data == last.ret.vertex_data
            segments == Segments(last.ret.index_data)
        IN  /\ Len(last.ret.index_data) % 2 = 0
            /\ \A n \in DOMAIN last.ret.index_data :
                  last.ret.index_data[n] \in 0..(Len(vertex_data) - 1)
            /\ \A k \in DOMAIN segments :
                  LET a == segments[k][1]
                      b == segments[k][2]
                      line == LineOf(a, step, num_substeps)
                  IN  /\ b = a + 1
                      /\ LineOf(b, step, num_substeps) = line
                      /\ vertex_data[a + 1].lonlat_position[line[1]]
                            = vertex_data[b + 1].lonlat_position[line[1]]
                      /\ vertex_data[a + 1].lonlat_position[3 - line[1]]
                            # vertex_data[b + 1].lonlat_position[3 - line[1]]

\* The graticule of the program is built: 37 meridians of 180 segments and
\* 19 parallels of 360 segments.
C28_Witness ==
    /\ Built("create_graticule")
    /\ last.arg = <<GRATICULE_STEP, GRATICULE_SUBSTEPS>>
    /\ Len(last.ret.index_data) = 2 * (37 * 180 + 19 * 360)

----------------------------------------------------------------------------
(* The rendering of a view, under SpecPanel. *)

\* What the draw texture and the storage texture of a view hold.
Drawn(v) == gl[v.draw_buf.draw_bufs.draw].content
Stored(v) == gl[v.draw_buf.storage_buf].content

\* C29: a render of a view clears the draw surface, draws the globe mesh
\* with the triangle program or the vector map with the line program, as
\* the view mode says, draws the graticule exactly when draw_graticule is
\* set, and then resolves once into the storage surface with the copy
\* program of the sampling mode; nothing is drawn after the resolve.
C29_RenderOrder ==
    \A u \in OpenViews :
        LET v == View(u)
        IN  Stored(v) # <<>> =>
              /\ Len(Stored(v)) = 1
              /\ Stored(v)[1].op = "copy"
              /\ Stored(v)[1].prog = IF v.draw_buf.draw_bufs.sampling = "Single"
                                     THEN "texture_copy_single" ELSE "texture_copy_multi"
              /\ Stored(v)[1].source = Drawn(v)
              /\ Len(Drawn(v)) = IF v.draw_graticule THEN 3 ELSE 2
              /\ Drawn(v)[1].op = "clear"
              /\ Drawn(v)[2].op = "draw"
              /\ <<Drawn(v)[2].buf, Drawn(v)[2].prog>>
                    = IF v.view_mode = "GlobeTexture"
                      THEN <<"globe_gl_buf", v.tris_gl_prog>>
                      ELSE <<"map_gl_buf", v.lines_gl_prog>>
              /\ v.draw_graticule =>
                    /\ Drawn(v)[3].op = "draw"
                    /\ Drawn(v)[3].buf = "graticule_gl_buf"
                    /\ Drawn(v)[3].prog = v.lines_gl_prog

\* A view has rendered the vector map without the graticule, and resolved.
C29_Witness ==
    \E u \in OpenViews :
        /\ View(u).view_mode = "VectorMap"
        /\ ~View(u).draw_graticule
        /\ Len(Stored(View(u))) = 1
        /\ Len(Drawn(View(u))) = 2

=========================================================================
